---- MODULE Spec2Model ----
(***************************************************************************)
(* Release pipeline of ig-pub_utils (src/release-pub).                     *)
(*                                                                         *)
(* Three implementations of the pipeline live in the repository:           *)
(*   "release" : IGPublisher            (release.py)                       *)
(*   "ui"      : ReleasePublisher       (release_ui.py)                    *)
(*   "fhir"    : ReleasePublisher       (fhir_publisher.py), which replaces *)
(*               run_command/build/publish/run of the "ui" class and keeps *)
(*               its clone_repo/prepare ("... existing init ...").         *)
(*                                                                         *)
(* Six specifications share the variables:                                 *)
(*   SpecCmd  : one invocation of run_command on drawn inputs              *)
(*   SpecSync : repeated synchronisation of one local path                 *)
(*   Spec     : one pipeline run                                           *)
(*   SpecDeploy : prepare_deployment on the files of successive runs       *)
(*   SpecBranch : the branch names of successive push_changes calls        *)
(*   SpecGui  : the desktop launcher (release-ui.py) and its build threads *)
(***************************************************************************)
EXTENDS Integers, Sequences, FiniteSets, TLC

VARIABLES
    call,       \* SpecCmd: the run_command invocation made (or Idle)
    res,        \* SpecCmd: what that invocation raised / returned
    log,        \* append-only run log / logger output
    tree,       \* SpecSync: the working tree at the synchronised path
    cwd,        \* process working directory
    syncCfg,    \* SpecSync: the arguments every sync call is made with
    syncHist,   \* SpecSync: one record per sync call made so far
    cfg,        \* Spec: pipeline configuration (immutable during a run)
    pc,         \* Spec: "running", "done" or "failed" ("idle": no run)
    trees,      \* Spec: working tree per repository
    jar,        \* Spec: publisher.jar: "absent", "valid" or "errorpage"
    started,    \* Spec: one record per stage started so far
    outcome,    \* Spec: the error run() let escape to its caller
    fs,         \* SpecDeploy: files of webroot, deploy, release-assets, source
    fsLast,     \* SpecDeploy: the latest prepare_deployment call (or Idle)
    now,        \* SpecBranch: the wall clock, in ticks
    branches,   \* SpecBranch: the branches push_changes calls have created
    build_button, \* SpecGui: state of the Start Build button
    stop_button,  \* SpecGui: state of the Stop button
    process,      \* SpecGui: self.process (NoProcess: None)
    threads,      \* SpecGui: one record per build thread started
    procs         \* SpecGui: the subprocess of each build thread

vars == <<call, res, log, tree, cwd, syncCfg, syncHist,
          cfg, pc, trees, jar, started, outcome, fs, fsLast,
          now, branches, build_button, stop_button, process, threads,
          procs>>

cmdVars  == <<call, res>>
syncVars == <<tree, syncCfg, syncHist>>
pipeVars == <<cfg, pc, trees, jar, started, outcome>>
fsVars   == <<fs, fsLast>>
clockVars == <<now, branches>>
guiVars  == <<build_button, stop_button, process, threads, procs>>

----------------------------------------------------------------------------
(* Bounds                                                                  *)

MaxLines == 2      \* lines of output (stdout + stderr) a process prints
MaxCalls == 2      \* consecutive sync calls on one path
MaxSize  == 2      \* largest file size (and largest threshold), in units
MaxRuns  == 2      \* prepare_deployment calls on one work directory
MaxTicks == 5      \* clock ticks a behaviour of SpecBranch lasts
MaxPushes == 3     \* push_changes calls in a behaviour of SpecBranch

----------------------------------------------------------------------------
(* Sequences                                                               *)

SeqsUpTo(S, n) == UNION {[1..k -> S] : k \in 0..n}

IsPrefix(s, t) == Len(s) <= Len(t) /\ SubSeq(t, 1, Len(s)) = s

Range(s) == {s[i] : i \in 1..Len(s)}

----------------------------------------------------------------------------
(* Errors                                                                  *)

NoErr == [kind |-> "none"]

\* subprocess.CalledProcessError(rc, cmd, output=out) of fhir_publisher.py
CalledProcessError(rc, cmd, output) ==
    [kind |-> "CalledProcessError", rc |-> rc, cmd |-> cmd, output |-> output]

\* CalledProcessError raised by subprocess.run(capture_output=True, check=True)
CalledProcessError2(rc, cmd, stdout, stderr) ==
    [kind |-> "CalledProcessError", rc |-> rc, cmd |-> cmd,
     stdout |-> stdout, stderr |-> stderr]

\* CalledProcessError raised by subprocess.run(check=True) without capture
CalledProcessError0(rc, cmd) ==
    [kind |-> "CalledProcessError", rc |-> rc, cmd |-> cmd]

\* RuntimeError("Command reported an error pattern: {p} ...")
PatternError(p) == [kind |-> "RuntimeError", pattern |-> p]

----------------------------------------------------------------------------
(* Output text and regular expressions.                                    *)
(* Captured output is a sequence of lines drawn from Lines.  A pattern is  *)
(* the regular expression text of the source; re.search(p, hay,            *)
(* flags=re.IGNORECASE) is tabulated per line in MatchTable (no pattern of *)
(* the source matches across a line break of these lines).                 *)

Lines == {"Done",
          "ERROR: schema validation failed",
          "0 errors, 0 warnings",
          "build failed",
          "remote: Permission to x denied",
          "error: failed to push some refs"}

generic == <<"\\bFATAL\\b",
             "\\bERROR\\b",
             "Traceback \\(most recent call last\\):",
             "\\bfatal:\\b",
             "Authentication failed",
             "Permission denied",
             "HTTP\\s*(401|403)",
             "failed to push",
             "could not read Username",
             "non-fast-forward",
             "BUILD FAILED">>

publish_patterns == <<"git push.*failed",
                      "remote: Permission to .* denied",
                      "fatal: Authentication failed",
                      "fatal: could not read Username",
                      "error: failed to push",
                      "ERROR:.*publish">>

MatchTable ==
    { <<"\\bERROR\\b", "ERROR: schema validation failed">>,
      <<"BUILD FAILED", "build failed">>,
      <<"remote: Permission to .* denied", "remote: Permission to x denied">>,
      <<"\\bERROR\\b", "error: failed to push some refs">>,
      <<"failed to push", "error: failed to push some refs">>,
      <<"error: failed to push", "error: failed to push some refs">> }

re_search(p, hay) == \E i \in 1..Len(hay) : <<p, hay[i]>> \in MatchTable

Outputs == SeqsUpTo(Lines, MaxLines)

\* what a child process does: exit status and the text on its two streams
ProcBehaviours ==
    { p \in [rc : {0, 1, 128}, stdout : Outputs, stderr : Outputs] :
        Len(p.stdout) + Len(p.stderr) <= MaxLines }

\* stderr=subprocess.STDOUT: both streams arrive on one pipe
Merged(proc) == proc.stdout \o proc.stderr

----------------------------------------------------------------------------
(* Log.  An entry records the sink ("run.log" file of fhir_publisher.py or *)
(* the logging module), the level, what the text is, and the text.         *)

LogEntry(sink, level, what, text) ==
    [sink |-> sink, level |-> level, what |-> what, text |-> text]

\* ReleasePublisher._write_log: append to run.log; any failure to open or
\* write the file is swallowed (ok = FALSE) and the log is left as it was.
_write_log(lg, what, text, ok) ==
    IF ok THEN Append(lg, LogEntry("run.log", "-", what, text)) ELSE lg

\* logging.<level>(...) under the active logger level: DEBUG records are
\* dropped unless --debug raised the level (release.py main).
logger_emit(lg, level, what, text, debug) ==
    IF level = "DEBUG" /\ ~debug THEN lg
    ELSE Append(lg, LogEntry("logger", level, what, text))

----------------------------------------------------------------------------
(* CommandExecutor: the three run_command methods.                         *)
(* Each returns [raised, ret, log, last]: the exception that escapes (or   *)
(* NoErr), the value returned, the log afterwards, and _last_cmd_output.   *)

NoneVal == [kind |-> "None"]

StrVal(text) == [kind |-> "str", text |-> text]

CompletedProcess(proc) ==
    [kind |-> "CompletedProcess", returncode |-> proc.rc,
     stdout |-> proc.stdout, stderr |-> proc.stderr]

Min(S) == CHOOSE x \in S : \A y \in S : x <= y

\* variant: the generic patterns are only a fallback for a missing caller list
ScanList_Fallback(error_patterns) ==
    IF error_patterns # <<>> THEN error_patterns ELSE generic

\* the caller's patterns are scanned before the generic ones
ScanList(error_patterns) == error_patterns \o generic

\* variant: the output is scanned before the exit status is tested
Verdict_ScanFirst(rc, detect_errors, hit) ==
    IF detect_errors /\ hit THEN "pattern"
    ELSE IF rc # 0 THEN "process" ELSE "ok"

\* fhir_publisher.py run_command lines 105-136: "if rc != 0: raise
\* CalledProcessError", and only then "if detect_errors: ... re.search"
Verdict(rc, detect_errors, hit) ==
    IF rc # 0 THEN "process"
    ELSE IF detect_errors /\ hit THEN "pattern" ELSE "ok"

\* variant: the exit status is tested before the output is written to the log
run_command_fhir_RaiseFirst(cmd, proc, detect_errors, error_patterns, logOk, lg) ==
    LET lg0  == logger_emit(lg, "INFO", "cmd", <<cmd>>, FALSE)
        lg1  == _write_log(lg0, "cmd", <<cmd>>, logOk)
        out  == Merged(proc)
        lg2  == IF out # <<>> THEN _write_log(lg1, "out", out, logOk) ELSE lg1
        all  == error_patterns \o generic
        hits == {i \in 1..Len(all) : re_search(all[i], out)}
    IN  IF proc.rc # 0
        THEN [raised |-> CalledProcessError(proc.rc, cmd, out),
              ret |-> NoneVal, log |-> lg1, last |-> out]
        ELSE IF detect_errors /\ hits # {}
        THEN [raised |-> PatternError(all[Min(hits)]),
              ret |-> NoneVal, log |-> lg2, last |-> out]
        ELSE [raised |-> NoErr, ret |-> StrVal(out), log |-> lg2, last |-> out]

\* fhir_publisher.py ReleasePublisher.run_command.  error_patterns = <<>>
\* stands for both None and [] ("error_patterns or []").
run_command_fhir(cmd, proc, detect_errors, error_patterns, logOk, lg) ==
    LET lg0  == logger_emit(lg, "INFO", "cmd", <<cmd>>, FALSE)
        lg1  == _write_log(lg0, "cmd", <<cmd>>, logOk)
        out  == Merged(proc)
        lg2  == IF out # <<>> THEN _write_log(lg1, "out", out, logOk) ELSE lg1
        all  == ScanList(error_patterns)
        hits == {i \in 1..Len(all) : re_search(all[i], out)}
        v    == Verdict(proc.rc, detect_errors, hits # {})
    IN  IF v = "process"
        THEN [raised |-> CalledProcessError(proc.rc, cmd, out),
              ret |-> NoneVal, log |-> lg2, last |-> out]
        ELSE IF v = "pattern"
        THEN [raised |-> PatternError(all[Min(hits)]),
              ret |-> NoneVal, log |-> lg2, last |-> out]
        ELSE [raised |-> NoErr, ret |-> StrVal(out), log |-> lg2, last |-> out]

\* variant: subprocess.run is always called with check=False
run_command_release_NoCheck(cmd, proc, check, debug, lg) ==
    LET lg0 == logger_emit(lg, "DEBUG", "cmd", <<cmd>>, debug)
    IN  [raised |-> NoErr,
         ret |-> CompletedProcess(proc),
         log |-> IF proc.stdout # <<>>
                 THEN logger_emit(lg0, "DEBUG", "stdout", proc.stdout, debug)
                 ELSE lg0,
         last |-> <<>>]

\* release.py IGPublisher.run_command (capture_output=True, check=check)
run_command_release(cmd, proc, check, debug, lg) ==
    LET lg0 == logger_emit(lg, "DEBUG", "cmd", <<cmd>>, debug)
    IN  IF check /\ proc.rc # 0
        THEN [raised |-> CalledProcessError2(proc.rc, cmd, proc.stdout, proc.stderr),
              ret |-> NoneVal,
              log |-> logger_emit(
                        logger_emit(lg0, "ERROR", "failed", <<cmd>>, debug),
                        "ERROR", "stderr", proc.stderr, debug),
              last |-> <<>>]
        ELSE [raised |-> NoErr,
              ret |-> CompletedProcess(proc),
              log |-> IF proc.stdout # <<>>
                      THEN logger_emit(lg0, "DEBUG", "stdout", proc.stdout, debug)
                      ELSE lg0,
              last |-> <<>>]

\* release_ui.py ReleasePublisher.run_command (subprocess.run(check=True),
\* the child writes straight to the terminal: nothing is captured)
run_command_ui(cmd, proc, lg) ==
    LET lg0 == logger_emit(lg, "INFO", "cmd", <<cmd>>, FALSE)
    IN  IF proc.rc # 0
        THEN [raised |-> CalledProcessError0(proc.rc, cmd),
              ret |-> NoneVal, log |-> lg0, last |-> <<>>]
        ELSE [raised |-> NoErr, ret |-> NoneVal, log |-> lg0, last |-> <<>>]

\* one invocation, by executor
run_command(in, lg) ==
    CASE in.ex = "fhir"    -> run_command_fhir(in.cmd, in.proc, in.detect_errors,
                                               in.error_patterns, in.logOk, lg)
      [] in.ex = "release" -> run_command_release(in.cmd, in.proc, in.check,
                                                  in.debug, lg)
      [] in.ex = "ui"      -> run_command_ui(in.cmd, in.proc, lg)

----------------------------------------------------------------------------
(* SpecCmd: one run_command invocation on drawn inputs.                    *)

Idle == [kind |-> "idle"]

CmdInput(ex, proc, check, detect, pats, debug, logOk) ==
    [kind |-> "call", ex |-> ex, cmd |-> "cmd", proc |-> proc, check |-> check,
     detect_errors |-> detect, error_patterns |-> pats,
     debug |-> debug, logOk |-> logOk]

\* fhir: detect_errors / error_patterns / log file state vary (check does
\* not exist: the exit status is always checked); release: check and the
\* logger level vary; ui: nothing but the process varies.
CmdInputs ==
    { CmdInput("fhir", p, TRUE, d, ps, FALSE, w) :
        p \in ProcBehaviours, d \in BOOLEAN,
        ps \in {<<>>, publish_patterns}, w \in BOOLEAN }
    \cup { CmdInput("release", p, c, FALSE, <<>>, g, TRUE) :
        p \in ProcBehaviours, c \in BOOLEAN, g \in BOOLEAN }
    \cup { CmdInput("ui", p, TRUE, FALSE, <<>>, FALSE, TRUE) :
        p \in ProcBehaviours }

\* the log may already hold the record of an earlier command
PriorLogs == { <<>>, <<LogEntry("run.log", "-", "cmd", <<"earlier">>)>> }

IdleSync == tree = Idle /\ syncCfg = Idle /\ syncHist = <<>>

IdleFs == fs = Idle /\ fsLast = Idle

IdleClock == now = 0 /\ branches = <<>>

NoProcess == 0     \* self.process = None

\* the launcher as setup_ui leaves it: Start Build enabled, Stop disabled,
\* no subprocess, no build thread
IdleGui == /\ build_button = "normal" /\ stop_button = "disabled"
           /\ process = NoProcess /\ threads = <<>> /\ procs = <<>>

IdlePipe == /\ cfg = Idle /\ pc = "idle" /\ trees = Idle /\ jar = "absent"
            /\ started = <<>> /\ outcome = NoErr

InitCmd ==
    /\ IdleGui
    /\ call = Idle
    /\ res = Idle
    /\ log \in PriorLogs
    /\ cwd = "base"
    /\ IdleSync
    /\ IdlePipe
    /\ IdleFs
    /\ IdleClock

RunCommand ==
    /\ call = Idle
    /\ \E in \in CmdInputs :
         LET r == run_command(in, log)
         IN  /\ call' = in
             /\ res' = [raised |-> r.raised, ret |-> r.ret, last |-> r.last]
             /\ log' = r.log
    /\ UNCHANGED <<guiVars, clockVars, fsVars, cwd, syncVars, pipeVars>>

NextCmd == RunCommand

SpecCmd == InitCmd /\ [][NextCmd]_vars

----------------------------------------------------------------------------
(* Working trees.                                                          *)
(* A local path is absent, a directory that is not a git repository, or a  *)
(* repository checked out on a branch, at the remote tip of that branch or *)
(* behind it ("old"), with or without local modifications, full or sparse  *)
(* (sparse.on with the declared path set; an empty set materialises only   *)
(* the top-level files).  The remote does not change.                      *)

NoTree == [kind |-> "absent"]

NotARepo == [kind |-> "dir"]

Repo(branch, rev, sparse, dirty) ==
    [kind |-> "repo", branch |-> branch, rev |-> rev, sparse |-> sparse,
     dirty |-> dirty, shallow |-> TRUE,
     staged |-> FALSE, ahead |-> FALSE, remote |-> "origin", pushed |-> FALSE]

FullTree == [on |-> FALSE, paths |-> {}]

SparseTree(paths) == [on |-> TRUE, paths |-> paths]

\* a git invocation (or GitPython call) and its arguments
GitCmd(op, depth, branch, filter, paths) ==
    [op |-> op, depth |-> depth, branch |-> branch, filter |-> filter,
     paths |-> paths]

\* ['git', 'clone', '--depth=1', ('--branch', branch)?, url, path]
CloneCmd(branch) == GitCmd("clone", 1, branch, "", <<>>)

\* ['git', 'clone', '--depth=1', '--filter=blob:none', '--sparse', url, path]
SparseCloneCmd == GitCmd("clone --sparse", 1, "", "blob:none", <<>>)

SparseInitCmd == GitCmd("sparse-checkout init", 0, "", "", <<>>)

\* variant: the sparse path set is declared empty
SparseSetCmd_None(paths) == GitCmd("sparse-checkout set", 0, "", "", <<>>)

\* ['git', 'sparse-checkout', 'set'] + sparse_dirs
SparseSetCmd(paths) == GitCmd("sparse-checkout set", 0, "", "", paths)

OpenOp == GitCmd("git.Repo", 0, "", "", <<>>)

ResetOp == GitCmd("reset --hard", 0, "", "", <<>>)

PullOp == GitCmd("pull", 0, "", "", <<>>)

ConfigCmd(key) == GitCmd("config", 0, "", "", <<key>>)

\* what a successful git command does to the working tree at the path
Effect(c, t) ==
    CASE c.op = "clone" ->
           Repo(IF c.branch = "" THEN "default" ELSE c.branch, "tip", FullTree, FALSE)
      [] c.op = "clone --sparse" ->
           Repo(IF c.branch = "" THEN "default" ELSE c.branch, "tip",
                SparseTree({}), FALSE)
      [] c.op = "sparse-checkout init" ->
           [t EXCEPT !.sparse = SparseTree(t.sparse.paths)]
      [] c.op = "sparse-checkout set" ->
           [t EXCEPT !.sparse = SparseTree(Range(c.paths))]
      [] c.op = "reset --hard" -> [t EXCEPT !.dirty = FALSE]
      [] c.op = "pull" -> [t EXCEPT !.rev = "tip"]
      [] c.op = "checkout -b" -> [t EXCEPT !.branch = c.branch]
      [] c.op = "rsync --delete" -> [t EXCEPT !.dirty = (c.paths = <<"new">>)]
      [] c.op = "add" -> [t EXCEPT !.staged = t.staged \/ t.dirty, !.dirty = FALSE]
      [] c.op = "commit" -> [t EXCEPT !.staged = FALSE, !.ahead = TRUE]
      [] c.op = "remote set-url" -> [t EXCEPT !.remote = "token"]
      [] c.op = "push" -> [t EXCEPT !.pushed = TRUE]
      [] OTHER -> t

\* a command that prints nothing and exits with rc, as run_command sees it
GitInput(ex, c, rc, debug) ==
    [CmdInput(ex, [rc |-> rc, stdout |-> <<>>, stderr |-> <<>>],
              TRUE, FALSE, <<>>, debug, TRUE) EXCEPT !.cmd = c]

\* one iteration of "for cmd in commands: self.run_command(cmd)": nothing
\* runs once an earlier command has raised; n counts the commands started
Ran(r, n) == [raised |-> r.raised, log |-> r.log, n |-> n]

RunStep(prev, in) ==
    IF prev.raised # NoErr THEN prev
    ELSE Ran(run_command(in, prev.log), prev.n + 1)

\* "for cmd in commands: self.run_command(cmd)"
RunAll(ins, lg) ==
    LET st[i \in 0..Len(ins)] ==
          IF i = 0 THEN [raised |-> NoErr, log |-> lg, n |-> 0]
          ELSE RunStep(st[i - 1], ins[i])
    IN  st[Len(ins)]

\* the tree after the commands cs[1..k] succeeded one after the other
ApplyEffects(cs, k, t) ==
    LET tr[i \in 0..k] == IF i = 0 THEN t ELSE Effect(cs[i], tr[i - 1])
    IN  tr[k]

\* variant: the tree is put back as it was when a command raises
Outcome_Rollback(cs, t, r) ==
    [raised |-> r.raised, log |-> r.log, cmds |-> SubSeq(cs, 1, r.n),
     tree |-> IF r.raised = NoErr THEN ApplyEffects(cs, r.n, t) ELSE t]

\* what a command list did: the commands started, the error of the last one
\* if it raised, and the tree after the ones that succeeded
Outcome(cs, t, r) ==
    [raised |-> r.raised, log |-> r.log, cmds |-> SubSeq(cs, 1, r.n),
     tree |-> ApplyEffects(cs, IF r.raised = NoErr THEN r.n ELSE r.n - 1, t)]

\* run a command list against the tree, rcs[i] being the exit status of cs[i]
RunCommands(ex, cs, rcs, debug, t, lg) ==
    Outcome(cs, t,
            RunAll([i \in 1..Len(cs) |-> GitInput(ex, cs[i], rcs[i], debug)], lg))

----------------------------------------------------------------------------
(* RepositorySynchronizer.                                                 *)
(* A sync call returns [tree, cwd, log, raised, cmds, warned, removed]:    *)
(* tree / process working directory / log afterwards, the exception that   *)
(* escapes, the git operations attempted in order, whether the "Failed to  *)
(* update" warning was logged, whether the directory was deleted.          *)
(* env names the git operation that fails should it be run ("none": all   *)
(* succeed); every call stops at its first failing operation.              *)

SyncEnvs == [failing : {"none", "clone", "clone --sparse", "sparse-checkout init",
                        "sparse-checkout set", "reset --hard", "pull", "config"}]

\* exit status of the operation under env
Rc(env, op) == IF env.failing = op THEN 128 ELSE 0

\* the operations among cmds that failed under env
FailedOps(cmds, env) ==
    {cmds[j].op : j \in {k \in 1..Len(cmds) : Rc(env, cmds[k].op) # 0}}

\* variant: the working directory is restored on the normal path only
RestoreCwd_NoFinally(original_cwd, inside, raised) ==
    IF raised = NoErr THEN original_cwd ELSE inside

\* release_ui.py clone_repo, "finally: os.chdir(original_cwd)"
RestoreCwd(original_cwd, inside, raised) == original_cwd

\* variant: the update of an existing tree is not guarded by try/except
UpdateRaised_Unguarded(failed) ==
    IF failed THEN [kind |-> "GitCommandError"] ELSE NoErr

\* release_ui.py clone_repo, "except Exception as e: logging.warning(...)":
\* whatever the update raised is swallowed
UpdateRaised(failed) == NoErr

\* release_ui.py clone_repo, branch "if os.path.exists(path)": open the
\* repository, hard reset, pull; each only if the one before did not raise
update_existing(t, wd, lg, env) ==
    LET openOk  == t.kind = "repo"
        resetOk == openOk /\ Rc(env, "reset --hard") = 0
        pullOk  == resetOk /\ Rc(env, "pull") = 0
        t1      == IF resetOk THEN Effect(ResetOp, t) ELSE t
        t2      == IF pullOk THEN Effect(PullOp, t1) ELSE t1
        lg1     == logger_emit(lg, "INFO", "exists", <<>>, FALSE)
        lg2     == IF pullOk THEN lg1
                   ELSE logger_emit(lg1, "WARNING", "update failed", <<>>, FALSE)
    IN  [tree |-> t2, cwd |-> wd, log |-> lg2,
         raised |-> UpdateRaised(~pullOk),
         cmds |-> <<OpenOp>> \o (IF openOk THEN <<ResetOp>> ELSE <<>>)
                             \o (IF resetOk THEN <<PullOp>> ELSE <<>>),
         warned |-> ~pullOk, removed |-> FALSE]

\* the result of a sync call that ran the commands of r
Synced(r, wd, removed) ==
    [tree |-> r.tree, cwd |-> wd, log |-> r.log, raised |-> r.raised,
     cmds |-> r.cmds, warned |-> FALSE, removed |-> removed]

\* release_ui.py clone_repo lines 81-87, r2 being the outcome of the two
\* sparse-checkout commands run inside the try block
sparse_finally(original_cwd, inside, cloned, r2) ==
    [Synced(r2, RestoreCwd(original_cwd, inside, r2.raised), FALSE)
       EXCEPT !.cmds = cloned \o r2.cmds]

\* release_ui.py clone_repo lines 80-87, r1 being the outcome of the clone
sparse_after_clone(ex, wd, sparse_dirs, env, r1) ==
    IF r1.raised # NoErr
    THEN Synced(r1, wd, FALSE)
    ELSE sparse_finally(wd, "path", r1.cmds,
            RunCommands(ex, <<SparseInitCmd, SparseSetCmd(sparse_dirs)>>,
                        <<Rc(env, "sparse-checkout init"),
                          Rc(env, "sparse-checkout set")>>,
                        FALSE, r1.tree, r1.log))

\* release_ui.py clone_repo, sparse branch of an absent path
clone_sparse(ex, t, wd, lg, branch, sparse_dirs, env) ==
    sparse_after_clone(ex, wd, sparse_dirs, env,
        RunCommands(ex, <<SparseCloneCmd>>, <<Rc(env, "clone --sparse")>>,
                    FALSE, t, lg))

\* release_ui.py clone_repo, full clone of an absent path
clone_full(ex, t, wd, lg, branch, env) ==
    Synced(RunCommands(ex, <<CloneCmd(branch)>>, <<Rc(env, "clone")>>, FALSE, t, lg),
           wd, FALSE)

\* variant: an existing path is deleted and cloned again
clone_repo_Reclone(ex, t, wd, lg, branch, use_sparse, sparse_dirs, env) ==
    [clone_full(ex, NoTree, wd, lg, branch, env) EXCEPT !.removed = (t # NoTree)]

\* release_ui.py ReleasePublisher.clone_repo; branch = "" and
\* sparse_dirs = <<>> stand for None (both are tested for truth only)
clone_repo(ex, t, wd, lg, branch, use_sparse, sparse_dirs, env) ==
    IF t # NoTree
    THEN update_existing(t, wd, lg, env)
    ELSE IF use_sparse /\ sparse_dirs # <<>>
    THEN clone_sparse(ex, t, wd, lg, branch, sparse_dirs, env)
    ELSE clone_full(ex, t, wd, lg, branch, env)

\* release.py IGPublisher.checkout_repo: delete the path if it exists, then
\* shallow clone of the default branch
checkout_repo(t, wd, lg, debug, env) ==
    Synced(RunCommands("release", <<CloneCmd("")>>, <<Rc(env, "clone")>>, debug,
                       NoTree, logger_emit(lg, "INFO", "checkout", <<>>, debug)),
           wd, t # NoTree)

\* release.py sparse_checkout_webroot line 119: the listing of the webroot
\* is logged when all commands succeeded
webroot_listed(s, debug) ==
    IF s.raised = NoErr
    THEN [s EXCEPT !.log = logger_emit(s.log, "INFO", "webroot contents", <<>>, debug)]
    ELSE s

\* release.py IGPublisher.sparse_checkout_webroot: delete the path if it
\* exists, then the five shell commands ("cd webroot && ..." changes the
\* directory of the child shell only)
sparse_checkout_webroot(t, wd, lg, debug, ig_folder, env) ==
    webroot_listed(
        Synced(RunCommands("release",
                  <<SparseCloneCmd, SparseInitCmd, SparseSetCmd(<<ig_folder>>),
                    ConfigCmd("user.email"), ConfigCmd("user.name")>>,
                  <<Rc(env, "clone --sparse"), Rc(env, "sparse-checkout init"),
                    Rc(env, "sparse-checkout set"), Rc(env, "config"),
                    Rc(env, "config")>>,
                  debug, NoTree,
                  logger_emit(lg, "INFO", "sparse checkout", <<>>, debug)),
               wd, t # NoTree),
        debug)

\* sync of one path by the implementation and arguments in c
sync(c, t, wd, lg, env) ==
    CASE c.impl = "clone_repo" ->
           clone_repo(c.ex, t, wd, lg, c.branch, c.use_sparse, c.sparse_dirs, env)
      [] c.impl = "checkout_repo" -> checkout_repo(t, wd, lg, FALSE, env)
      [] c.impl = "sparse_checkout_webroot" ->
           sparse_checkout_webroot(t, wd, lg, FALSE, c.sparse_dirs[1], env)

----------------------------------------------------------------------------
(* SpecSync: consecutive sync calls on one local path, remote unchanged.   *)

SyncCfg(impl, ex, branch, use_sparse, sparse_dirs) ==
    [impl |-> impl, ex |-> ex, branch |-> branch, use_sparse |-> use_sparse,
     sparse_dirs |-> sparse_dirs]

SyncCfgs ==
    { SyncCfg("clone_repo", "ui", b, u, d) :
        b \in {"", "rel"}, u \in BOOLEAN, d \in {<<>>, <<"templates", "assets">>} }
    \cup { SyncCfg("checkout_repo", "release", "", FALSE, <<>>),
           SyncCfg("sparse_checkout_webroot", "release", "", TRUE, <<"hiv">>) }

\* what may be at the path when the first call is made
InitialTrees ==
    {NoTree, NotARepo}
    \cup { Repo(b, r, sp, d) :
             b \in {"default", "rel"}, r \in {"old", "tip"},
             sp \in {FullTree, SparseTree({}), SparseTree({"templates", "assets"})},
             d \in BOOLEAN }

IdleCmd == call = Idle /\ res = Idle

InitSync ==
    /\ IdleGui
    /\ IdleCmd
    /\ IdlePipe
    /\ IdleFs
    /\ IdleClock
    /\ log = <<>>
    /\ cwd = "base"
    /\ tree \in InitialTrees
    /\ syncCfg \in SyncCfgs
    /\ syncHist = <<>>

Sync ==
    /\ syncCfg # Idle
    /\ Len(syncHist) < MaxCalls
    /\ \E env \in SyncEnvs :
         \E r \in {sync(syncCfg, tree, cwd, log, env)} :
             /\ tree' = r.tree
             /\ cwd' = r.cwd
             /\ log' = r.log
             /\ syncHist' = Append(syncHist,
                  [existed |-> tree # NoTree, before |-> tree, after |-> r.tree,
                   cmds |-> r.cmds, raised |-> r.raised, warned |-> r.warned,
                   removed |-> r.removed, cwdBefore |-> cwd, cwdAfter |-> r.cwd])
    /\ UNCHANGED <<guiVars, clockVars, fsVars, cmdVars, syncCfg, pipeVars>>

NextSync == Sync

SpecSync == InitSync /\ [][NextSync]_vars

----------------------------------------------------------------------------
(* Pipeline.                                                               *)
(* A stage returns [raised, log, cmds, ...]; run() calls the stages of     *)
(* RunOrder one after the other.                                           *)

Repos == {"source", "history", "webroot", "registry"}

Stage(name, repo) == [stage |-> name, repo |-> repo]

\* variant: the build tool is run before it has been downloaded
RunOrder_BuildFirst(c) ==
    <<Stage("sync", "history"), Stage("sync", "webroot"), Stage("sync", "registry"),
      Stage("build", ""), Stage("download", ""), Stage("publish", "")>>

\* the calls of run() (and of prepare(), which run() calls first), in order
RunOrder(c) ==
    LET prepare == <<Stage("sync", "history"), Stage("sync", "webroot"),
                     Stage("sync", "registry")>>
                   \o (IF c.source_repo THEN <<Stage("sync", "source")>> ELSE <<>>)
                   \o <<Stage("download", "")>>
    IN  CASE c.variant = "release" ->
               <<Stage("sync", "source"), Stage("sync", "history"),
                 Stage("sync", "registry"), Stage("sync", "webroot"),
                 Stage("download", ""), Stage("build", ""), Stage("publish", ""),
                 Stage("deploy", ""), Stage("push", "")>>
          [] c.variant = "ui" ->
               prepare \o <<Stage("build", ""), Stage("publish", "")>>
          [] c.variant = "fhir" ->
               <<Stage("preflight", "")>> \o prepare
               \o <<Stage("build", ""), Stage("publish", "")>>

\* the executor of the variant
Executor(c) == c.variant

\* remotes of the webroot repository: GitHub over https, another host over
\* https, GitHub over ssh
GithubHttps == "https://github.com/org/web.git"

OtherHttps == "https://gitlab.com/org/web.git"

GithubSsh == "git@github.com:org/web.git"

\* "isinstance(url, str) and url.startswith('https://github.com/')"
_is_github_https(url) == url = GithubHttps

PipeCfg(variant, enable_sparse, branch, source_repo, push_changes, token, webroot_repo) ==
    [variant |-> variant, enable_sparse |-> enable_sparse,
     sparse_dirs |-> <<"templates", "assets">>, branch |-> branch,
     source_repo |-> source_repo, push_changes |-> push_changes,
     token |-> token, webroot_repo |-> webroot_repo, ig_folder |-> "hiv",
     create_pr |-> TRUE, debug |-> FALSE]

PipeCfgs ==
    { PipeCfg("release", TRUE, "", TRUE, p, t, GithubHttps) :
        p \in BOOLEAN, t \in BOOLEAN }
    \cup { PipeCfg("ui", e, b, s, FALSE, FALSE, GithubHttps) :
             e \in BOOLEAN, b \in {"", "rel"}, s \in BOOLEAN }
    \cup { PipeCfg("fhir", TRUE, "rel", s, FALSE, t, u) :
             s \in BOOLEAN, t \in BOOLEAN,
             u \in {GithubHttps, OtherHttps, GithubSsh} }

\* a tree left by an earlier run: outdated and locally modified
StaleTree == Repo("default", "old", FullTree, TRUE)

\* the base directory before a run: nothing checked out, everything checked
\* out by an earlier run, only / all but the webroot, or plain directories
InitialCheckouts ==
    { [r \in Repos |-> IF r \in P THEN StaleTree ELSE NoTree] :
        P \in {{}, Repos, {"webroot"}, Repos \ {"webroot"}} }
    \cup { [r \in Repos |-> NotARepo] }

Init ==
    /\ IdleGui
    /\ IdleCmd
    /\ IdleSync
    /\ IdleFs
    /\ IdleClock
    /\ log = <<>>
    /\ cwd = "base"
    /\ cfg \in PipeCfgs
    /\ pc = "running"
    /\ trees \in InitialCheckouts
    /\ jar \in {"absent", "valid"}
    /\ started = <<>>
    /\ outcome = NoErr

\* variant: a stage that raised is called again
NextStage_Retry ==
    IF pc = "failed" /\ Len(started) < Len(RunOrder(cfg))
    THEN Stage(started[Len(started)].stage, started[Len(started)].repo)
    ELSE IF pc = "running" /\ Len(started) < Len(RunOrder(cfg))
    THEN RunOrder(cfg)[Len(started) + 1]
    ELSE Stage("none", "")

\* the next call of run(), if run() is still going
NextStage ==
    IF pc = "running" /\ Len(started) < Len(RunOrder(cfg))
    THEN RunOrder(cfg)[Len(started) + 1]
    ELSE Stage("none", "")

\* variant: run() wraps what a stage raised into a new error
Propagate_Wrapped(e) ==
    IF e = NoErr THEN NoErr ELSE [kind |-> "RuntimeError", cause |-> e]

\* release.py run(): "except Exception as e: logger.error(...); raise";
\* release_ui.py / fhir_publisher.py run(): no handler at all
Propagate(e) == e

\* the logger.error of release.py run()'s handler
RunHandlerLog(lg, e) ==
    IF cfg.variant = "release" /\ e # NoErr
    THEN logger_emit(lg, "ERROR", "build failed", <<>>, cfg.debug)
    ELSE lg

\* variant: a failed stage does not stop the run
After_Continue(e, n) == IF n = Len(RunOrder(cfg)) THEN "done" ELSE "running"

\* control after the n-th stage: an exception leaves run(), else the next call
After(e, n) ==
    IF e # NoErr THEN "failed"
    ELSE IF n = Len(RunOrder(cfg)) THEN "done" ELSE "running"

\* the stage just run is recorded, and run() goes on or lets the error escape
Finish(rec, lg) ==
    /\ started' = Append(started, rec)
    /\ pc' = After(rec.raised, Len(started) + 1)
    /\ outcome' = Propagate(rec.raised)
    /\ log' = RunHandlerLog(lg, rec.raised)

\* a stage that ran: what it raised, the commands it attempted, which of them
\* failed, and (sync) the tree it found and whether it logged the warning
StageRec(st, raised, cmds, failed, before, warned) ==
    [stage |-> st.stage, repo |-> st.repo, raised |-> raised, cmds |-> cmds,
     failed |-> failed, before |-> before, warned |-> warned]

\* variant: preflight tests for the Java runtime only
preflight_JavaOnly(lg, javaRc, c) ==
    IF javaRc # 0
    THEN [raised |-> [kind |-> "RuntimeError", msg |-> "Java runtime not found"],
          log |-> lg]
    ELSE [raised |-> NoErr, log |-> _write_log(lg, "out", <<"java version">>, TRUE)]

\* fhir_publisher.py ReleasePublisher.preflight
preflight(lg, javaRc, c) ==
    IF javaRc # 0
    THEN [raised |-> [kind |-> "RuntimeError", msg |-> "Java runtime not found"],
          log |-> lg]
    ELSE LET lg1 == _write_log(lg, "out", <<"java version">>, TRUE)
         IN  IF _is_github_https(c.webroot_repo) /\ ~c.token
             THEN [raised |-> [kind |-> "RuntimeError", msg |-> "No GitHub token"],
                   log |-> lg1]
             ELSE [raised |-> NoErr, log |-> lg1]

Preflight ==
    /\ NextStage.stage = "preflight"
    /\ \E javaRc \in {0, 1} :
         \E r \in {preflight(log, javaRc, cfg)} :
             Finish(StageRec(NextStage, r.raised,
                             <<GitCmd("java -version", 0, "", "", <<>>)>>,
                             IF javaRc # 0 THEN {"java -version"} ELSE {},
                             NoTree, FALSE), r.log)
    /\ UNCHANGED <<guiVars, clockVars, fsVars, cmdVars, syncVars, cfg, trees, jar, cwd>>

\* the sync call run() / prepare() makes for the repository
SyncArgs(c, repo) ==
    IF c.variant = "release"
    THEN SyncCfg(IF repo = "webroot" THEN "sparse_checkout_webroot"
                 ELSE "checkout_repo", "release", "", repo = "webroot",
                 <<c.ig_folder>>)
    ELSE SyncCfg("clone_repo", Executor(c),
                 IF repo = "registry" THEN "" ELSE c.branch,
                 repo = "webroot" /\ c.enable_sparse,
                 IF repo = "webroot" THEN c.sparse_dirs ELSE <<>>)

SyncStage ==
    /\ NextStage.stage = "sync"
    /\ \E env \in SyncEnvs :
         \E r \in {sync(SyncArgs(cfg, NextStage.repo), trees[NextStage.repo],
                        cwd, log, env)} :
             /\ trees' = [trees EXCEPT ![NextStage.repo] = r.tree]
             /\ cwd' = r.cwd
             /\ Finish(StageRec(NextStage, r.raised, r.cmds,
                                FailedOps(r.cmds, env), trees[NextStage.repo],
                                r.warned), r.log)
    /\ UNCHANGED <<guiVars, clockVars, fsVars, cmdVars, syncVars, cfg, jar>>

\* curl -L <url> -o publisher.jar (no --fail): a transfer that ends in an HTTP
\* error response still exits 0 and stores the response body
CurlRc(transfer) == IF transfer = "network error" THEN 6 ELSE 0

CurlFile(transfer, before) ==
    CASE transfer = "ok" -> "valid"
      [] transfer = "http error" -> "errorpage"
      [] OTHER -> before

CurlCmd == GitCmd("curl", 0, "", "", <<>>)

DockerProbe == GitCmd("docker --version", 0, "", "", <<>>)

SushiCmd == GitCmd("docker run npm install -g fsh-sushi", 0, "", "", <<>>)

\* a command run with check=False
Unchecked(c, rc, debug) == [GitInput("release", c, rc, debug) EXCEPT !.check = FALSE]

\* release.py IGPublisher._is_docker_available: run_command(check=False)
\* and test of the return code
probe_result(r) == [available |-> r.ret.returncode = 0, log |-> r.log]

_is_docker_available(dockerRc, debug, lg) ==
    probe_result(run_command(Unchecked(DockerProbe, dockerRc, debug), lg))

\* the download attempted (or not) by the stage: commands, error, jar file
fetched(r, j, transfer) ==
    [raised |-> r.raised, log |-> r.log, cmds |-> r.cmds,
     jar |-> IF j = "absent" /\ r.raised = NoErr THEN CurlFile(transfer, j) ELSE j,
     failed |-> IF j = "absent" /\ transfer # "ok" THEN {transfer} ELSE {}]

\* variant: the jar is downloaded whether or not it is there already
fetch_jar_Always(c, j, lg, transfer) ==
    fetched(RunCommands(Executor(c), <<CurlCmd>>, <<CurlRc(transfer)>>,
                        c.debug, NoTree, lg),
            "absent", transfer)

\* "if not os.path.exists(publisher_jar): run_command(curl ...)"
fetch_jar(c, j, lg, transfer) ==
    fetched(IF j = "absent"
            THEN RunCommands(Executor(c), <<CurlCmd>>, <<CurlRc(transfer)>>,
                             c.debug, NoTree, lg)
            ELSE [raised |-> NoErr, log |-> lg, cmds |-> <<>>, tree |-> NoTree],
            j, transfer)

\* release.py setup_publisher lines 137-144: sushi is installed through
\* docker when docker is there, with check=False
sushi_installed(f, d, s, sushiRc) ==
    IF d.available
    THEN [f EXCEPT !.log = s.log, !.cmds = f.cmds \o <<DockerProbe, SushiCmd>>,
                   !.failed = f.failed \cup (IF sushiRc # 0 THEN {SushiCmd.op} ELSE {})]
    ELSE [f EXCEPT !.log = d.log, !.cmds = f.cmds \o <<DockerProbe>>]

install_sushi(c, f, d, sushiRc) ==
    sushi_installed(f, d, run_command(Unchecked(SushiCmd, sushiRc, c.debug), d.log),
                    sushiRc)

setup_sushi(c, f, dockerRc, sushiRc) ==
    IF c.variant # "release" \/ f.raised # NoErr THEN f
    ELSE install_sushi(c, f, _is_docker_available(dockerRc, c.debug, f.log), sushiRc)

\* release_ui.py prepare() lines 112-119 / release.py setup_publisher
download(c, j, lg, transfer, dockerRc, sushiRc) ==
    setup_sushi(c, fetch_jar(c, j, lg, transfer), dockerRc, sushiRc)

\* the publisher.jar path as the stage finds it (os.path.exists)
JarFile(j) == [kind |-> "file", content |-> j]

Download ==
    /\ NextStage.stage = "download"
    /\ \E transfer \in {"ok", "http error", "network error"},
          dockerRc \in {0, 127}, sushiRc \in {0, 1} :
         \E r \in {download(cfg, jar, log, transfer, dockerRc, sushiRc)} :
             /\ jar' = r.jar
             /\ Finish(StageRec(NextStage, r.raised, r.cmds, r.failed,
                                JarFile(jar), FALSE), r.log)
    /\ UNCHANGED <<guiVars, clockVars, fsVars, cmdVars, syncVars, cfg, trees, cwd>>

\* what the build tool may do when run by a stage
ToolBehaviours ==
    { [rc |-> r, stdout |-> o, stderr |-> <<>>] :
        r \in {0, 1},
        o \in { <<"Done">>, <<"ERROR: schema validation failed">>,
                <<"remote: Permission to x denied">> } }

ToolCmd(mode) == GitCmd("java -jar publisher.jar", 0, "", "", <<mode>>)

\* variant: the build tool is run without scanning its output
ToolInput_NoDetect(c, mode, proc) ==
    [CmdInput(Executor(c), proc, TRUE, FALSE, <<>>, c.debug, TRUE)
       EXCEPT !.cmd = ToolCmd(mode)]

\* the run_command call of build / publish: detect_errors=True (and the
\* publish patterns) in fhir_publisher.py only
ToolInput(c, mode, proc) ==
    [CmdInput(Executor(c), proc, TRUE, c.variant = "fhir",
              IF mode = "publish" THEN publish_patterns ELSE <<>>,
              c.debug, TRUE) EXCEPT !.cmd = ToolCmd(mode)]

tool_ran(c, mode, r) ==
    [raised |-> r.raised, log |-> r.log,
     cmds |-> (IF c.variant = "release" THEN <<DockerProbe>> ELSE <<>>)
              \o <<ToolCmd(mode)>>]

\* build / publish of the three classes: release.py probes for docker first
\* and runs with check=True; release_ui.py runs plainly; fhir_publisher.py
\* runs with detect_errors=True (publish adds its own patterns)
run_tool(c, mode, proc, dockerRc, lg) ==
    tool_ran(c, mode,
        run_command(ToolInput(c, mode, proc),
                    IF c.variant = "release"
                    THEN _is_docker_available(dockerRc, c.debug, lg).log
                    ELSE lg))

\* what the build tool did when the stage ran it
ToolRun(proc) == [kind |-> "process", rc |-> proc.rc, out |-> Merged(proc)]

Build ==
    /\ NextStage.stage = "build"
    /\ \E proc \in ToolBehaviours, dockerRc \in {0, 127} :
         \E r \in {run_tool(cfg, "build", proc, dockerRc, log)} :
             Finish(StageRec(NextStage, r.raised, r.cmds,
                             IF proc.rc # 0 THEN {ToolCmd("build").op} ELSE {},
                             ToolRun(proc), FALSE), r.log)
    /\ UNCHANGED <<guiVars, clockVars, fsVars, cmdVars, syncVars, cfg, trees, jar, cwd>>

Publish ==
    /\ NextStage.stage = "publish"
    /\ \E proc \in ToolBehaviours, dockerRc \in {0, 127} :
         \E r \in {run_tool(cfg, "publish", proc, dockerRc, log)} :
             Finish(StageRec(NextStage, r.raised, r.cmds,
                             IF proc.rc # 0 THEN {ToolCmd("publish").op} ELSE {},
                             ToolRun(proc), FALSE), r.log)
    /\ UNCHANGED <<guiVars, clockVars, fsVars, cmdVars, syncVars, cfg, trees, jar, cwd>>

\* release.py IGPublisher.prepare_deployment, as the pipeline sees it: the
\* file operations (mkdir, move, copytree) complete or raise OSError
prepare_deployment(lg, fsOk) ==
    [raised |-> IF fsOk THEN NoErr ELSE [kind |-> "OSError"],
     log |-> logger_emit(lg, "INFO", "deploy", <<>>, FALSE)]

PrepareDeployment ==
    /\ NextStage.stage = "deploy"
    /\ \E fsOk \in BOOLEAN :
         \E r \in {prepare_deployment(log, fsOk)} :
             Finish(StageRec(NextStage, r.raised, <<>>,
                             IF fsOk THEN {} ELSE {"file operation"}, NoTree, FALSE),
                    r.log)
    /\ UNCHANGED <<guiVars, clockVars, fsVars, cmdVars, syncVars, cfg, trees, jar, cwd>>

\* content: whether deploy/<ig_folder> is what the webroot has committed
\* ("same") or differs from it ("new")
PushEnvs == [failing : {"none", "checkout -b", "rsync --delete", "add", "commit",
                        "remote set-url", "push"},
             content : {"same", "new"}]

PushCmd(op) == GitCmd(op, 0, "", "", <<>>)

DiffCmd == PushCmd("diff --staged --quiet")

\* "git checkout -b {branch_name}"
BranchCmd(branch_name) == GitCmd("checkout -b", 0, branch_name, "", <<>>)

\* "rsync -av --exclude='.git/' --delete deploy/<ig_folder>/ webroot/<ig_folder>/"
MirrorCmd(content) == GitCmd("rsync --delete", 0, "", "", <<content>>)

\* variant: the staged-diff test always reports changes
StagedDiffRc_Changed(t) == 1

\* exit status of "git diff --staged --quiet": 1 when something is staged
StagedDiffRc(t) == IF t.staged THEN 1 ELSE 0

\* release.py push_changes lines 249-261, r2 being the outcome of commit,
\* (remote set-url,) push
pushed(c, before, r2) ==
    [raised |-> r2.raised, cmds |-> before \o r2.cmds, tree |-> r2.tree,
     log |-> IF r2.raised = NoErr /\ c.create_pr
             THEN logger_emit(r2.log, "INFO", "pushed", <<>>, c.debug)
             ELSE r2.log]

\* variant: the remote URL is rewritten with or without a token
SetUrl_Always(c) == <<PushCmd("remote set-url")>>

\* "if self.config.github_token: git remote set-url origin https://{token}@..."
SetUrl(c) == IF c.token THEN <<PushCmd("remote set-url")>> ELSE <<>>

\* variant: the branch is pushed before the commit is made
CommitAndPush_PushFirst(c) ==
    <<PushCmd("push")>> \o SetUrl(c) \o <<PushCmd("commit")>>

\* the commands after the staged-diff test
CommitAndPush(c) ==
    <<PushCmd("commit")>> \o SetUrl(c) \o <<PushCmd("push")>>

\* release.py push_changes lines 243-258, d being the completed diff command
after_diff(c, env, r1, d) ==
    IF d.ret.returncode = 0
    THEN [raised |-> NoErr, cmds |-> r1.cmds \o <<DiffCmd>>, tree |-> r1.tree,
          log |-> logger_emit(d.log, "INFO", "no changes", <<>>, c.debug)]
    ELSE pushed(c, r1.cmds \o <<DiffCmd>>,
                RunCommands("release", CommitAndPush(c),
                            [i \in 1..Len(CommitAndPush(c)) |->
                                Rc(env, CommitAndPush(c)[i].op)],
                            c.debug, r1.tree, d.log))

\* release.py push_changes lines 239-243, r1 being the outcome of the first
\* three commands
after_staging(c, env, r1) ==
    IF r1.raised # NoErr THEN r1
    ELSE after_diff(c, env, r1,
                    run_command(Unchecked(DiffCmd, StagedDiffRc(r1.tree), c.debug),
                                r1.log))

\* variant: the push flag is not consulted
push_changes_Always(c, t, lg, env) ==
    after_staging(c, env,
        RunCommands("release",
            <<BranchCmd("update"), MirrorCmd(env.content), PushCmd("add")>>,
            <<Rc(env, "checkout -b"), Rc(env, "rsync --delete"), Rc(env, "add")>>,
            c.debug, t, logger_emit(lg, "INFO", "pushing", <<>>, c.debug)))

\* release.py IGPublisher.push_changes
push_changes(c, t, lg, env) ==
    IF ~c.push_changes
    THEN [raised |-> NoErr, cmds |-> <<>>, tree |-> t,
          log |-> logger_emit(lg, "INFO", "skip push", <<>>, c.debug)]
    ELSE after_staging(c, env,
            RunCommands("release",
                <<BranchCmd("update"), MirrorCmd(env.content), PushCmd("add")>>,
                <<Rc(env, "checkout -b"), Rc(env, "rsync --delete"), Rc(env, "add")>>,
                c.debug, t, logger_emit(lg, "INFO", "pushing", <<>>, c.debug)))

PushChanges ==
    /\ NextStage.stage = "push"
    /\ \E env \in PushEnvs :
         \E r \in {push_changes(cfg, trees["webroot"], log, env)} :
             /\ trees' = [trees EXCEPT !["webroot"] = r.tree]
             /\ Finish(StageRec(NextStage, r.raised, r.cmds, FailedOps(r.cmds, env),
                                trees["webroot"], FALSE), r.log)
    /\ UNCHANGED <<guiVars, clockVars, fsVars, cmdVars, syncVars, cfg, jar, cwd>>

Next ==
    \/ Preflight
    \/ SyncStage
    \/ Download
    \/ Build
    \/ Publish
    \/ PrepareDeployment
    \/ PushChanges

Spec == Init /\ [][Next]_vars

----------------------------------------------------------------------------
(* Deployment files (release.py IGPublisher.prepare_deployment).           *)
(* A file is [origin, path, size]; a directory tree is a function from the *)
(* relative paths <<directory, name>> of its files to the files; the       *)
(* release-assets directory is flat, a function from names to files.       *)
(* fs = [webroot, deploy, assets, package], package being the file         *)
(* source/output/package.tgz or NoFile.                                    *)

File(origin, path, size) == [origin |-> origin, path |-> path, size |-> size]

NoFile == [origin |-> "none"]

NoFiles == [p \in {} |-> NoFile]

\* file.name: the base name of a path
BaseName(path) == path[2]

\* g written over f: what is in g replaces what f has at the same place
Merge(f, g) ==
    [p \in DOMAIN f \cup DOMAIN g |-> IF p \in DOMAIN g THEN g[p] ELSE f[p]]

Without(f, S) == [p \in DOMAIN f \ S |-> f[p]]

\* "file.is_file() and file.stat().st_size > max_size"
Large(web, max_size) == {p \in DOMAIN web : web[p].size > max_size}

\* the orders in which rglob can yield the paths of S
Orders(S) == {o \in [1..Cardinality(S) -> S] : Range(o) = S}

\* "self.paths['release_assets'] / file.name"
AssetName(path) == BaseName(path)

\* the shutil.move calls of the loop, in rglob order: a move onto a name
\* that is already there replaces the file of that name
move_large(web, assets, order) ==
    LET st[i \in 0..Len(order)] ==
          IF i = 0 THEN assets
          ELSE Merge(st[i - 1],
                     [n \in {AssetName(order[i])} |-> web[order[i]]])
    IN  st[Len(order)]

\* release.py lines 208-211: every large file leaves the webroot
moved(f, large, order) ==
    [f EXCEPT !.webroot = Without(f.webroot, large),
              !.assets = move_large(f.webroot, f.assets, order)]

\* variant: the remaining files are moved to deploy
copied_Moved(f) ==
    [f EXCEPT !.deploy = Merge(f.deploy, f.webroot), !.webroot = NoFiles]

\* release.py line 214: shutil.copytree(webroot, deploy, dirs_exist_ok=True)
copied(f) == [f EXCEPT !.deploy = Merge(f.deploy, f.webroot)]

\* variant: package.tgz is copied and stays where it was
package_moved_Copied(f) ==
    IF f.package = NoFile THEN f
    ELSE [f EXCEPT !.assets = Merge(f.assets, [n \in {"package.tgz"} |-> f.package])]

\* release.py lines 217-219: package.tgz is moved if it exists
package_moved(f) ==
    IF f.package = NoFile THEN f
    ELSE [f EXCEPT !.assets = Merge(f.assets, [n \in {"package.tgz"} |-> f.package]),
                   !.package = NoFile]

\* release.py IGPublisher.prepare_deployment on the files f; fault names the
\* file operation that raises OSError ("none": all complete)
prepare_deployment_files(f, max_size, order, fault) ==
    CASE fault = "copytree" ->
           [fs |-> moved(f, Large(f.webroot, max_size), order),
            raised |-> [kind |-> "OSError"]]
      [] fault = "package" ->
           [fs |-> copied(moved(f, Large(f.webroot, max_size), order)),
            raised |-> IF f.package = NoFile THEN NoErr ELSE [kind |-> "OSError"]]
      [] OTHER ->
           [fs |-> package_moved(copied(moved(f, Large(f.webroot, max_size), order))),
            raised |-> NoErr]

----------------------------------------------------------------------------
(* SpecDeploy: prepare_deployment on a work directory, run after run.      *)

Sizes == 1..MaxSize

\* config.max_file_size_mb
Thresholds == 1..MaxSize

WebPaths == {<<"a", "data.zip">>, <<"b", "data.zip">>, <<"a", "package.tgz">>}

\* the published trees: any files at the paths, of any size
WebTrees ==
    UNION { [P -> Sizes] : P \in SUBSET WebPaths }

WebFiles(t) == [p \in DOMAIN t |-> File("webroot", p, t[p])]

Packages ==
    {NoFile} \cup {File("source", <<"output", "package.tgz">>, n) : n \in Sizes}

InitDeploy ==
    /\ IdleGui
    /\ IdleCmd
    /\ IdleSync
    /\ IdlePipe
    /\ log = <<>>
    /\ cwd = "base"
    /\ \E t \in WebTrees, k \in Packages :
         fs = [webroot |-> WebFiles(t), deploy |-> NoFiles, assets |-> NoFiles,
               package |-> k]
    /\ fsLast = [n |-> 0, called |-> FALSE]
    /\ IdleClock

PrepareFiles ==
    /\ ~fsLast.called
    /\ fsLast.n < MaxRuns
    /\ \E max_size \in Thresholds, fault \in {"none", "copytree", "package"} :
         \E order \in Orders(Large(fs.webroot, max_size)) :
             \E r \in {prepare_deployment_files(fs, max_size, order, fault)} :
                 /\ fs' = r.fs
                 /\ fsLast' = [n |-> fsLast.n + 1, called |-> TRUE, before |-> fs,
                               max_size |-> max_size, raised |-> r.raised]
    /\ UNCHANGED <<guiVars, clockVars, cmdVars, syncVars, pipeVars, log, cwd>>

\* the stages of the next run that come before prepare_deployment: the
\* webroot is deleted and cloned anew and the build tool writes the
\* published tree and package.tgz; deploy and release-assets are kept
Republish ==
    /\ fsLast.called
    /\ fsLast.n < MaxRuns
    /\ \E t \in WebTrees, k \in Packages :
         fs' = [fs EXCEPT !.webroot = WebFiles(t), !.package = k]
    /\ fsLast' = [n |-> fsLast.n, called |-> FALSE]
    /\ UNCHANGED <<guiVars, clockVars, cmdVars, syncVars, pipeVars, log, cwd>>

NextDeploy ==
    \/ PrepareFiles
    \/ Republish

SpecDeploy == InitDeploy /\ [][NextDeploy]_vars

----------------------------------------------------------------------------
(* SpecBranch: the branch names release.py push_changes generates.         *)
(* The clock counts ticks of a fraction of a second; datetime.now() reads  *)
(* it and the format %Y%m%d-%H%M%S keeps whole seconds.                    *)

TicksPerSecond == 2

IgFolders == {"hiv", "tb"}

\* f"{datetime.now():%Y%m%d-%H%M%S}": the time of day to the second
strftime(t) == t \div TicksPerSecond

\* f"update-{self.config.ig_folder}-{datetime.now():%Y%m%d-%H%M%S}"
branch_name(ig_folder, t) == <<"update", ig_folder, strftime(t)>>

InitBranch ==
    /\ IdleGui
    /\ IdleCmd
    /\ IdleSync
    /\ IdlePipe
    /\ IdleFs
    /\ log = <<>>
    /\ cwd = "base"
    /\ now = 0
    /\ branches = <<>>

Tick ==
    /\ now < MaxTicks
    /\ now' = now + 1
    /\ UNCHANGED <<guiVars, branches, fsVars, cmdVars, syncVars, pipeVars, log, cwd>>

\* a push_changes call (of this or another run of the pipeline) names its
\* branch and creates it with "git checkout -b"
CreateBranch ==
    /\ Len(branches) < MaxPushes
    /\ \E ig_folder \in IgFolders :
         branches' = Append(branches,
                        [ig_folder |-> ig_folder, at |-> now,
                         cmd |-> BranchCmd(branch_name(ig_folder, now))])
    /\ UNCHANGED <<guiVars, now, fsVars, cmdVars, syncVars, pipeVars, log, cwd>>

NextBranch ==
    \/ Tick
    \/ CreateBranch

SpecBranch == InitBranch /\ [][NextBranch]_vars

----------------------------------------------------------------------------
(* Desktop launcher (release-ui.py): Start Build, Stop and build threads.  *)
(* The button callbacks run on the Tk main loop, run_build runs on a       *)
(* thread of its own per Start Build click; each callback and each         *)
(* statement group of run_build between two accesses of the shared         *)
(* attributes is one step.                                                 *)

MaxBuilds == 3     \* Start Build clicks that start a thread

\* what the IG Folder entry may hold when Start Build is clicked
IgFolderEntries == {"", "hiv"}

\* a build thread: where it is in run_build, and the Popen object whose
\* stdout its read loop was bound to (line 189)
Thread(at, reading) == [at |-> at, reading |-> reading]

Builds == 1..Len(threads)

\* the other groups of variables, which the launcher never touches
restVars == <<clockVars, fsVars, cmdVars, syncVars, pipeVars, log, cwd>>

InitGui ==
    /\ IdleGui
    /\ IdleCmd
    /\ IdleSync
    /\ IdlePipe
    /\ IdleFs
    /\ IdleClock
    /\ log = <<>>
    /\ cwd = "base"

\* thread i moves to position at, its read loop bound to reading
Goto(i, at, reading) ==
    threads' = [threads EXCEPT ![i] = Thread(at, reading)]

\* Start Build clicked (a disabled button takes no click): an empty IG
\* folder shows an error and returns, otherwise the buttons are switched and
\* a daemon thread running run_build is started
start_build ==
    /\ build_button = "normal"
    /\ Len(threads) < MaxBuilds
    /\ \E ig_folder \in IgFolderEntries :
         IF ig_folder = ""
         THEN UNCHANGED guiVars
         ELSE /\ build_button' = "disabled"
              /\ stop_button' = "normal"
              /\ threads' = Append(threads, Thread("start", NoProcess))
              /\ procs' = Append(procs, "unborn")
              /\ UNCHANGED process
    /\ UNCHANGED restVars

\* run_build, lines 158-186: the command is assembled, the subprocess is
\* launched and stored in self.process
run_build_Popen(i) ==
    /\ threads[i].at = "start"
    /\ process' = i
    /\ procs' = [procs EXCEPT ![i] = "running"]
    /\ Goto(i, "popen", NoProcess)
    /\ UNCHANGED <<build_button, stop_button, restVars>>

\* run_build, line 189: self.process is read again to bind the read loop;
\* None has no stdout, and the exception leads to the finally block
run_build_ReadOutput(i) ==
    /\ threads[i].at = "popen"
    /\ IF process = NoProcess
       THEN Goto(i, "finally", NoProcess)
       ELSE Goto(i, "reading", process)
    /\ UNCHANGED <<build_button, stop_button, process, procs, restVars>>

\* run_build, lines 189-197: the loop ends when the subprocess it reads
\* from has closed its output
run_build_EndOfOutput(i) ==
    /\ threads[i].at = "reading"
    /\ procs[threads[i].reading] = "exited"
    /\ Goto(i, "wait", threads[i].reading)
    /\ UNCHANGED <<build_button, stop_button, process, procs, restVars>>

\* run_build, lines 200-214: self.process is read again and waited for (None
\* raises); the status and the dialog shown depend on the exit status
run_build_Wait(i) ==
    /\ threads[i].at = "wait"
    /\ IF process = NoProcess THEN TRUE ELSE procs[process] = "exited"
    /\ Goto(i, "finally", threads[i].reading)
    /\ UNCHANGED <<build_button, stop_button, process, procs, restVars>>

\* run_build, lines 216-221
run_build_Finally(i) ==
    /\ threads[i].at = "finally"
    /\ build_button' = "normal"
    /\ stop_button' = "disabled"
    /\ process' = NoProcess
    /\ Goto(i, "done", threads[i].reading)
    /\ UNCHANGED <<procs, restVars>>

\* Popen.terminate: the signal is sent, the subprocess exits later
terminate(p) ==
    [procs EXCEPT ![p] = IF @ = "running" THEN "terminating" ELSE @]

\* Stop clicked (a disabled button takes no click)
stop_build ==
    /\ stop_button = "normal"
    /\ IF process # NoProcess
       THEN /\ procs' = terminate(process)
            /\ build_button' = "normal"
            /\ stop_button' = "disabled"
            /\ UNCHANGED <<process, threads>>
       ELSE UNCHANGED guiVars
    /\ UNCHANGED restVars

\* a build subprocess ends, by itself or on the signal it was sent
ProcessExit(i) ==
    /\ procs[i] \in {"running", "terminating"}
    /\ procs' = [procs EXCEPT ![i] = "exited"]
    /\ UNCHANGED <<build_button, stop_button, process, threads, restVars>>

NextGui ==
    \/ start_build
    \/ stop_build
    \/ \E i \in Builds : run_build_Popen(i)
    \/ \E i \in Builds : run_build_ReadOutput(i)
    \/ \E i \in Builds : run_build_EndOfOutput(i)
    \/ \E i \in Builds : run_build_Wait(i)
    \/ \E i \in Builds : run_build_Finally(i)
    \/ \E i \in Builds : ProcessExit(i)

SpecGui == InitGui /\ [][NextGui]_vars

----------------------------------------------------------------------------
(* Properties of the command executor (SpecCmd)                            *)

Called == call # Idle

\* some pattern of the caller's list or of the generic list matches the output
SomePatternMatches(c) ==
    \E p \in Range(c.error_patterns) \cup Range(generic) :
        re_search(p, Merged(c.proc))

\* C3: a command that exits 0 and whose captured output matches a default or
\* caller-supplied pattern makes run_command (fhir_publisher.py) raise the
\* pattern error naming a pattern that matches when detect_errors is set, and
\* return the captured output when it is not.
C3_PatternDetected ==
    (Called /\ call.ex = "fhir" /\ call.proc.rc = 0 /\ SomePatternMatches(call))
    => IF call.detect_errors
       THEN /\ res.raised.kind = "RuntimeError"
            /\ res.raised.pattern \in Range(call.error_patterns) \cup Range(generic)
            /\ re_search(res.raised.pattern, Merged(call.proc))
       ELSE /\ res.raised = NoErr
            /\ res.ret = StrVal(Merged(call.proc))

\* a generic-only match was detected although the caller supplied patterns
C3_Witness ==
    /\ Called /\ call.ex = "fhir" /\ call.proc.rc = 0 /\ call.detect_errors
    /\ call.error_patterns # <<>>
    /\ res.raised = PatternError("\\bERROR\\b")

\* C4 as stated: every non-zero exit raises a process error carrying the exit
\* code and the merged captured output.
C4_AsStated ==
    (Called /\ call.proc.rc # 0)
    => /\ res.raised = CalledProcessError(call.proc.rc, call.cmd, Merged(call.proc))

\* C4 amended: a non-zero exit raises the process error carrying the exit
\* code, except in IGPublisher.run_command called with check=False, where the
\* completed process is returned; the error carries the merged output in
\* fhir_publisher.py, stdout and stderr separately in release.py and no
\* output in release_ui.py.
C4_NonZeroExit ==
    (Called /\ call.proc.rc # 0)
    => CASE call.ex = "fhir" ->
              res.raised = CalledProcessError(call.proc.rc, call.cmd, Merged(call.proc))
         [] call.ex = "release" ->
              IF call.check
              THEN res.raised = CalledProcessError2(call.proc.rc, call.cmd,
                                                    call.proc.stdout, call.proc.stderr)
              ELSE res.raised = NoErr /\ res.ret = CompletedProcess(call.proc)
         [] call.ex = "ui" ->
              res.raised = CalledProcessError0(call.proc.rc, call.cmd)

C4_Witness ==
    /\ Called /\ call.ex = "release" /\ call.check /\ call.proc.rc = 128
    /\ call.proc.stdout # <<>> /\ call.proc.stderr # <<>>
    /\ res.raised.kind = "CalledProcessError"

\* the text t is in the log as an entry of the given kind
Logged(what, t) == \E i \in 1..Len(log) : log[i].what = what /\ log[i].text = t

----------------------------------------------------------------------------
(* Properties of the repository synchroniser (SpecSync)                    *)

Ops(h) == {h.cmds[j].op : j \in 1..Len(h.cmds)}

\* the call changed the process working directory to run sparse-checkout
ChangedDir(h) == syncCfg.impl = "clone_repo" /\ "sparse-checkout init" \in Ops(h)

\* C6: after a sync call that changed the process working directory to run
\* the sparse-checkout commands, the working directory is what it was before
\* the call, whether the call returned or sparse-checkout init / set failed.
C6_CwdRestored ==
    \A i \in 1..Len(syncHist) :
        ChangedDir(syncHist[i]) => /\ syncHist[i].cwdAfter = syncHist[i].cwdBefore
                                   /\ (i = Len(syncHist) => cwd = syncHist[i].cwdBefore)

\* sparse-checkout set failed inside the changed directory
C6_Witness ==
    /\ Len(syncHist) = 1
    /\ ChangedDir(syncHist[1])
    /\ syncHist[1].raised.kind = "CalledProcessError"
    /\ syncHist[1].cmds[Len(syncHist[1].cmds)].op = "sparse-checkout set"
    /\ cwd = "base"

IsClone(c) == c.op \in {"clone", "clone --sparse"}

\* C7 as stated: a sync call on an existing path issues no clone, does not
\* delete the directory, and performs a hard reset and then a pull.
C7_AsStated ==
    \A i \in 1..Len(syncHist) :
        LET h == syncHist[i]
        IN  h.existed =>
              /\ ~h.removed
              /\ \A j \in 1..Len(h.cmds) : ~IsClone(h.cmds[j])
              /\ \E j \in 1..Len(h.cmds) - 1 :
                    h.cmds[j] = ResetOp /\ h.cmds[j + 1] = PullOp

\* C7 amended: ReleasePublisher.clone_repo reuses an existing path: no clone,
\* no deletion; the repository is opened, hard-reset and pulled in that order,
\* each step attempted only when the one before succeeded (a directory that
\* is no repository is only opened, a failed reset is not followed by a
\* pull).  IGPublisher.checkout_repo / sparse_checkout_webroot delete an
\* existing path and clone it afresh.
C7_ReuseExisting ==
    \A i \in 1..Len(syncHist) :
        LET h == syncHist[i]
        IN  h.existed =>
              IF syncCfg.impl = "clone_repo"
              THEN /\ ~h.removed
                   /\ \A j \in 1..Len(h.cmds) : ~IsClone(h.cmds[j])
                   /\ h.cmds # <<>>
                   /\ IsPrefix(h.cmds, <<OpenOp, ResetOp, PullOp>>)
                   /\ (h.before.kind = "dir" => h.cmds = <<OpenOp>>)
                   /\ (PullOp \in Range(h.cmds) => ~h.after.dirty)
                   /\ (~h.warned => h.cmds = <<OpenOp, ResetOp, PullOp>>)
              ELSE /\ h.removed
                   /\ h.cmds # <<>>
                   /\ IsClone(h.cmds[1])

\* a modified, outdated tree was reset and pulled
C7_Witness ==
    /\ Len(syncHist) = 1
    /\ syncCfg.impl = "clone_repo"
    /\ syncHist[1].existed
    /\ syncHist[1].before.kind = "repo" /\ syncHist[1].before.dirty
    /\ syncHist[1].before.rev = "old"
    /\ syncHist[1].cmds = <<OpenOp, ResetOp, PullOp>>
    /\ tree.rev = "tip" /\ ~tree.dirty

\* some git operation of the call failed, swallowed or not
Failed(h) == h.raised # NoErr \/ h.warned

C10_ShallowBranchClone ==
    \A i \in 1..Len(syncHist) :
        LET h == syncHist[i]
        IN  ~h.existed =>
              /\ h.cmds # <<>>
              /\ IsClone(h.cmds[1])
              /\ h.cmds[1].depth = 1
              /\ h.cmds[1].branch = syncCfg.branch
              /\ (h.after # NoTree =>
                    h.after.branch = IF syncCfg.branch = "" THEN "default"
                                     ELSE syncCfg.branch)

----------------------------------------------------------------------------
(* Properties of the pipeline (Spec)                                       *)

\* C1: once a stage has raised, no later stage is started and the run has
\* failed with that same error escaping run() unmodified.
C1_FailFast ==
    /\ \A i \in 1..Len(started) :
          started[i].raised # NoErr
          => /\ i = Len(started)
             /\ pc = "failed"
             /\ outcome = started[i].raised
    /\ pc = "failed" => started # <<>> /\ started[Len(started)].raised # NoErr
    /\ pc # "failed" => outcome = NoErr

\* the build printed an error line and exited 0; the pattern error left run()
C1_Witness ==
    /\ pc = "failed"
    /\ started[Len(started)].stage = "build"
    /\ started[Len(started)].failed = {}
    /\ outcome = PatternError("\\bERROR\\b")

Rank(st) ==
    CASE st = "preflight" -> 0
      [] st = "sync" -> 1
      [] st = "download" -> 2
      [] st = "build" -> 3
      [] st = "publish" -> 4
      [] st = "deploy" -> 5
      [] st = "push" -> 6

\* the repositories the configuration names
ConfiguredRepos ==
    IF cfg.variant = "release" THEN Repos
    ELSE {"history", "webroot", "registry"}
         \cup (IF cfg.source_repo THEN {"source"} ELSE {})

\* C2: the stages start in the order sync of every configured repository,
\* download, build, publish, deployment preparation, change publishing; none
\* is skipped or repeated, and a stage starts only after the stage before it
\* has completed.
C2_StageOrder ==
    /\ \A i, j \in 1..Len(started) :
          i < j => /\ Rank(started[i].stage) <= Rank(started[j].stage)
                   /\ (Rank(started[i].stage) = Rank(started[j].stage)
                       => /\ started[i].stage = "sync"
                          /\ started[i].repo # started[j].repo)
    /\ \A j \in 1..Len(started) :
          Rank(started[j].stage) >= 2
          => /\ \A r \in ConfiguredRepos :
                  \E i \in 1..(j - 1) :
                      started[i].stage = "sync" /\ started[i].repo = r
             /\ \A k \in 2..(Rank(started[j].stage) - 1) :
                  \E i \in 1..(j - 1) : Rank(started[i].stage) = k
    /\ \A i \in 1..(Len(started) - 1) : started[i].raised = NoErr

\* a complete run of IGPublisher that committed and pushed
C2_Witness ==
    /\ pc = "done"
    /\ cfg.variant = "release"
    /\ Len(started) = 9
    /\ started[9].stage = "push"
    /\ PushCmd("push") \in Range(started[9].cmds)

\* C8: in ReleasePublisher.clone_repo a failure while updating an existing
\* tree (opening the repository, hard reset, pull) is logged as a warning and
\* fails neither the sync nor the run, which goes on with the tree; a failed
\* clone always fails the run with the clone's error.
C8_UpdateNonFatal ==
    \A i \in 1..Len(started) :
        started[i].stage = "sync" =>
          /\ (cfg.variant # "release" /\ started[i].before # NoTree)
             => /\ started[i].raised = NoErr
                /\ (i = Len(started) => pc # "failed")
                /\ (started[i].before.kind = "dir" \/ started[i].failed # {})
                   => /\ started[i].warned
                      /\ \E k \in 1..Len(log) : log[k].level = "WARNING"
          /\ (started[i].failed \cap {"clone", "clone --sparse"} # {})
             => /\ started[i].raised.kind = "CalledProcessError"
                /\ i = Len(started)
                /\ pc = "failed"
                /\ outcome = started[i].raised

\* the pull of an existing tree failed and the run still completed
C8_Witness ==
    /\ pc = "done"
    /\ cfg.variant = "ui"
    /\ \E i \in 1..Len(started) :
          /\ started[i].stage = "sync"
          /\ started[i].before = StaleTree
          /\ started[i].failed = {"pull"}
          /\ started[i].warned

----------------------------------------------------------------------------
(* Partial fetch (SpecSync)                                                *)

\* the call asks for the partial-fetch mode
SparseRequested ==
    \/ syncCfg.impl = "sparse_checkout_webroot"
    \/ syncCfg.impl = "clone_repo" /\ syncCfg.use_sparse /\ syncCfg.sparse_dirs # <<>>

\* positions of the commands of h with the operation op
At(h, op) == {j \in 1..Len(h.cmds) : h.cmds[j].op = op}

----------------------------------------------------------------------------
(* Download of the build tool (Spec)                                       *)

\* the stage records of the run with the given stage name
StagesOf(name) == {i \in 1..Len(started) : started[i].stage = name}

\* how many times the run issued a command with the operation op
Issued(op) ==
    LET n[i \in 0..Len(started)] ==
          IF i = 0 THEN 0
          ELSE n[i - 1] + Cardinality({j \in 1..Len(started[i].cmds) :
                                          started[i].cmds[j].op = op})
    IN  n[Len(started)]

\* C12: a download stage that finds publisher.jar at its path issues no
\* download command; one that finds it absent issues exactly one, and the run
\* issues no other.
C12_DownloadOnlyIfAbsent ==
    /\ \A i \in StagesOf("download") :
          Cardinality({j \in 1..Len(started[i].cmds) : started[i].cmds[j] = CurlCmd})
            = IF started[i].before.content = "absent" THEN 1 ELSE 0
    /\ Issued(CurlCmd.op)
         = Cardinality({i \in StagesOf("download") :
                           started[i].before.content = "absent"})

\* the jar was there, nothing was downloaded and the build was started
C12_Witness ==
    /\ \E i \in StagesOf("download") :
          /\ started[i].before.content = "valid"
          /\ started[i].raised = NoErr
    /\ Issued(CurlCmd.op) = 0
    /\ StagesOf("build") # {}

\* C13: when publisher.jar is absent and the transfer does not succeed (the
\* connection fails or the server answers with an HTTP error), the download
\* stage raises and no build stage is started.
C13_DownloadFails ==
    \A i \in StagesOf("download") :
        (started[i].before.content = "absent" /\ started[i].failed # {})
        => /\ started[i].raised # NoErr
           /\ i = Len(started)
           /\ StagesOf("build") = {}

----------------------------------------------------------------------------
(* Build and publish stages (Spec)                                         *)

\* the build tool exited 0 and printed the schema validation error
PrintedError(rec) ==
    /\ rec.before.rc = 0
    /\ rec.before.out = <<"ERROR: schema validation failed">>

\* C14 as stated: in every implementation a build or publish stage whose
\* tool exits 0 and prints "ERROR: schema validation failed" fails with the
\* pattern error, and after such a build no publish stage is started.
C14_AsStated ==
    \A i \in StagesOf("build") \cup StagesOf("publish") :
        PrintedError(started[i])
        => /\ started[i].raised = PatternError("\\bERROR\\b")
           /\ i = Len(started)
           /\ pc = "failed"

\* C14: in fhir_publisher.py a build or publish stage whose tool exits 0 and
\* prints "ERROR: schema validation failed" fails with the pattern error, and
\* after such a build no publish stage is started; in release.py and
\* release_ui.py the output is not scanned, the stage returns and the run
\* goes on.
C14_PatternFailsStage ==
    \A i \in StagesOf("build") \cup StagesOf("publish") :
        PrintedError(started[i])
        => IF cfg.variant = "fhir"
           THEN /\ started[i].raised = PatternError("\\bERROR\\b")
                /\ i = Len(started)
                /\ pc = "failed"
                /\ started[i].stage = "build" => StagesOf("publish") = {}
           ELSE /\ started[i].raised = NoErr
                /\ i = Len(started) => pc # "failed"

\* the build of fhir_publisher.py failed on the printed error
C14_Witness ==
    /\ cfg.variant = "fhir"
    /\ pc = "failed"
    /\ \E i \in StagesOf("build") :
          /\ PrintedError(started[i])
          /\ started[i].raised = PatternError("\\bERROR\\b")
    /\ StagesOf("publish") = {}

----------------------------------------------------------------------------
(* No retry (Spec)                                                         *)

\* how many times the stage record rec issued the command c
IssuedIn(rec, c) == Cardinality({j \in 1..Len(rec.cmds) : rec.cmds[j] = c})

\* how many times the run issued the command c
IssuedCmd(c) ==
    LET n[i \in 0..Len(started)] ==
          IF i = 0 THEN 0 ELSE n[i - 1] + IssuedIn(started[i], c)
    IN  n[Len(started)]

----------------------------------------------------------------------------
(* Deployment preparation (SpecDeploy)                                     *)

\* the latest prepare_deployment call returned
Returned == fsLast.called /\ fsLast.raised = NoErr

\* that call found deploy and release-assets empty and no package.tgz
Fresh ==
    /\ fsLast.before.deploy = NoFiles
    /\ fsLast.before.assets = NoFiles
    /\ fsLast.before.package = NoFile

InAssets(f) == \E n \in DOMAIN fs.assets : fs.assets[n] = f

InDeploy(f) == \E p \in DOMAIN fs.deploy : fs.deploy[p] = f

\* total size of the files of a directory
Bytes(t) ==
    LET sum[S \in SUBSET DOMAIN t] ==
          IF S = {} THEN 0
          ELSE LET x == CHOOSE x \in S : TRUE
               IN  t[x].size + sum[S \ {x}]
    IN  sum[DOMAIN t]

\* C16: after prepare_deployment returned on a work directory whose deploy
\* and release-assets directories were empty, every file of the webroot
\* larger than the threshold is under release-assets and not under deploy,
\* every other file is under deploy and not under release-assets, and deploy
\* and release-assets together hold as many files as the webroot did.
C16_Partition ==
    (Returned /\ Fresh) =>
      /\ \A p \in DOMAIN fsLast.before.webroot :
            LET f == fsLast.before.webroot[p]
            IN  IF f.size > fsLast.max_size
                THEN InAssets(f) /\ ~InDeploy(f)
                ELSE InDeploy(f) /\ ~InAssets(f)
      /\ Cardinality(DOMAIN fs.deploy) + Cardinality(DOMAIN fs.assets)
           = Cardinality(DOMAIN fsLast.before.webroot)

\* C17: after prepare_deployment returned, no file under deploy is larger
\* than the threshold of that call, whatever deploy held before the call.
C17_DeployWithinThreshold ==
    Returned => \A p \in DOMAIN fs.deploy : fs.deploy[p].size <= fsLast.max_size

\* C18: after prepare_deployment returned on a work directory whose deploy
\* and release-assets directories were empty, every file of the webroot is
\* under exactly one of deploy and release-assets, a file larger than the
\* threshold is under release-assets once, under its base name, and the
\* bytes under deploy and release-assets add up to the bytes of the webroot.
C18_Conserved ==
    (Returned /\ Fresh) =>
      /\ \A p \in DOMAIN fsLast.before.webroot :
            LET f == fsLast.before.webroot[p]
            IN  /\ InAssets(f) # InDeploy(f)
                /\ f.size > fsLast.max_size
                   => /\ BaseName(p) \in DOMAIN fs.assets
                      /\ {n \in DOMAIN fs.assets : fs.assets[n] = f} = {BaseName(p)}
      /\ Bytes(fs.deploy) + Bytes(fs.assets) = Bytes(fsLast.before.webroot)

\* C19: after prepare_deployment returned, a package.tgz that was at
\* source/output is under release-assets as package.tgz, is no longer at
\* source/output and is not under deploy, whatever its size.
C19_PackageMoved ==
    (Returned /\ fsLast.before.package # NoFile) =>
      /\ "package.tgz" \in DOMAIN fs.assets
      /\ fs.assets["package.tgz"] = fsLast.before.package
      /\ fs.package = NoFile
      /\ ~InDeploy(fsLast.before.package)

\* a package.tgz no larger than the threshold was moved, next to a published
\* package.tgz of the webroot that was copied to deploy
C19_Witness ==
    /\ Returned
    /\ fsLast.before.package # NoFile
    /\ fsLast.before.package.size <= fsLast.max_size
    /\ <<"a", "package.tgz">> \in DOMAIN fs.deploy
    /\ fs.assets["package.tgz"] = fsLast.before.package

----------------------------------------------------------------------------
(* Change publisher (Spec)                                                 *)

\* the operations of push_changes in the order the claim gives them
PushOrder ==
    <<"checkout -b", "rsync --delete", "add", "diff --staged --quiet",
      "commit", "remote set-url", "push">>

OpRank(op) == CHOOSE k \in 1..Len(PushOrder) : PushOrder[k] = op

\* C20: the commands of push_changes are issued in the order create branch,
\* mirror the deploy sub-path, stage, test the staged diff, commit, (set the
\* remote URL,) push, none twice and none before the ones that precede it
\* (setting the remote URL apart, which is done only with a token); a call
\* that returns has stopped after nothing (push not configured), after the
\* staged-diff test, or after the push.
C20_PushOrder ==
    \A i \in StagesOf("push") :
        LET cs == started[i].cmds
        IN  /\ \A j \in 1..Len(cs) : cs[j].op \in Range(PushOrder)
            /\ \A j, k \in 1..Len(cs) :
                  j < k => OpRank(cs[j].op) < OpRank(cs[k].op)
            /\ \A j \in 1..Len(cs) :
                  \A r \in 1..(OpRank(cs[j].op) - 1) :
                      PushOrder[r] # "remote set-url"
                      => \E k \in 1..(j - 1) : cs[k].op = PushOrder[r]
            /\ ~cfg.push_changes => cs = <<>>
            /\ started[i].raised = NoErr
               => \/ cs = <<>>
                  \/ cs[Len(cs)].op \in {"diff --staged --quiet", "push"}

\* something was staged: the branch was committed and pushed with a token
C20_Witness ==
    /\ pc = "done"
    /\ \E i \in StagesOf("push") :
          /\ Len(started[i].cmds) = 7
          /\ started[i].cmds[5].op = "commit"
          /\ started[i].cmds[7].op = "push"

----------------------------------------------------------------------------
(* Change publisher: commit and push (Spec)                                *)

\* the push_changes call of rec mirrored the given content and staged it
Staged(rec, content) ==
    /\ \E j \in 1..Len(rec.cmds) : rec.cmds[j] = MirrorCmd(content)
    /\ DiffCmd \in Range(rec.cmds)

\* the operations of the commands of rec
OpsOf(rec) == {rec.cmds[j].op : j \in 1..Len(rec.cmds)}

\* C21: when the mirrored content is what is committed already, so that the
\* staged diff is empty, push_changes issues no commit and no push, stops
\* after the staged-diff test and returns without error; a push is issued
\* only after a commit that was made of a non-empty staged diff.
C21_NoOpWhenUnchanged ==
    \A i \in StagesOf("push") :
        /\ Staged(started[i], "same")
           => /\ started[i].raised = NoErr
              /\ pc = "done"
              /\ OpsOf(started[i]) \cap {"commit", "remote set-url", "push"} = {}
              /\ started[i].cmds[Len(started[i].cmds)] = DiffCmd
              /\ ~trees["webroot"].ahead
              /\ ~trees["webroot"].pushed
        /\ "push" \in OpsOf(started[i])
           => /\ Staged(started[i], "new")
              /\ "commit" \in OpsOf(started[i])
              /\ "commit" \notin started[i].failed
              /\ trees["webroot"].ahead

\* nothing had changed: the stage stopped after the staged-diff test
C21_Witness ==
    /\ pc = "done"
    /\ \E i \in StagesOf("push") :
          /\ Staged(started[i], "same")
          /\ Len(started[i].cmds) = 4
          /\ started[i].raised = NoErr

----------------------------------------------------------------------------
(* Credential precondition (Spec)                                          *)

IsHttps(url) == url \in {GithubHttps, OtherHttps}

\* the run publishes to the webroot remote: run() of release_ui.py and
\* fhir_publisher.py always calls publish(); release.py pushes on --push
PushRequested == cfg.variant = "release" => cfg.push_changes

\* operations that reach the network
NetworkOps == {"clone", "clone --sparse", "pull", "curl", "push"}

NoNetworkOp ==
    \A i \in 1..Len(started) : OpsOf(started[i]) \cap NetworkOps = {}

\* C22 as stated: a run that pushes to an https:// remote without a
\* credential fails in its first step with a precondition error and issues
\* no clone, pull, download or push.
C22_AsStated ==
    (PushRequested /\ IsHttps(cfg.webroot_repo) /\ ~cfg.token /\ started # <<>>)
    => /\ Len(started) = 1
       /\ started[1].raised.kind = "RuntimeError"
       /\ pc = "failed"
       /\ NoNetworkOp

\* C22: run() of fhir_publisher.py, when the webroot remote is an
\* https://github.com/ URL and neither GITHUB_TOKEN nor GH_TOKEN is set,
\* fails in preflight with a RuntimeError (no token, or no Java runtime,
\* which is tested first) and issues no clone, pull, download or push;
\* run() of release.py and release_ui.py has no such test and starts with
\* the clone of a repository.
C22_PreflightToken ==
    started # <<>> =>
      /\ (cfg.variant = "fhir" /\ _is_github_https(cfg.webroot_repo) /\ ~cfg.token)
         => /\ Len(started) = 1
            /\ started[1].stage = "preflight"
            /\ started[1].raised.kind = "RuntimeError"
            /\ started[1].failed = {} => started[1].raised.msg = "No GitHub token"
            /\ pc = "failed"
            /\ outcome = started[1].raised
            /\ NoNetworkOp
      /\ cfg.variant # "fhir"
         => /\ started[1].stage = "sync"
            /\ OpsOf(started[1]) \cap NetworkOps # {} \/ started[1].before # NoTree

\* Java was found, the token was missing and the run stopped in preflight
C22_Witness ==
    /\ cfg.variant = "fhir"
    /\ cfg.webroot_repo = GithubHttps
    /\ ~cfg.token
    /\ pc = "failed"
    /\ Len(started) = 1
    /\ started[1].failed = {}
    /\ started[1].raised.msg = "No GitHub token"

----------------------------------------------------------------------------
(* Change publisher: failure (Spec)                                        *)

\* the command of rec with the operation op was issued and did not fail
Succeeded(rec, op) == op \in OpsOf(rec) /\ op \notin rec.failed

\* C23: when a command of push_changes run with check=True fails (branch
\* creation, mirror, stage, commit, set-url, push), the stage raises the
\* CalledProcessError of that command, which is the last command issued,
\* the run fails with that error, and the working tree keeps what the
\* commands before it did: the new branch, the staged changes, the commit,
\* the rewritten remote URL.
C23_AbortNoRollback ==
    \A i \in StagesOf("push") :
        started[i].failed # {}
        => LET rec  == started[i]
               last == rec.cmds[Len(rec.cmds)]
               t    == trees["webroot"]
           IN  /\ rec.failed = {last.op}
               /\ \A j \in 1..Len(rec.cmds) - 1 : rec.cmds[j].op \notin rec.failed
               /\ rec.raised.kind = "CalledProcessError"
               /\ rec.raised.cmd = last
               /\ rec.raised.rc # 0
               /\ i = Len(started)
               /\ pc = "failed"
               /\ outcome = rec.raised
               /\ t.branch = IF Succeeded(rec, "checkout -b") THEN "update"
                             ELSE rec.before.branch
               /\ t.staged = (Staged(rec, "new") /\ ~Succeeded(rec, "commit"))
               /\ t.ahead = Succeeded(rec, "commit")
               /\ t.remote = IF Succeeded(rec, "remote set-url") THEN "token"
                             ELSE rec.before.remote
               /\ ~t.pushed

\* the push failed: the branch, its commit and the token URL are still there
C23_Witness ==
    /\ pc = "failed"
    /\ \E i \in StagesOf("push") :
          /\ started[i].failed = {"push"}
          /\ started[i].raised.kind = "CalledProcessError"
    /\ trees["webroot"].branch = "update"
    /\ trees["webroot"].ahead
    /\ trees["webroot"].remote = "token"

\* C24: once push_changes has committed, the remote URL is rewritten to the
\* token URL, before the push, exactly when a token is configured; without
\* a token no set-url is issued, the remote URL stays as it was, and the
\* push is issued all the same.
C24_TokenUrl ==
    \A i \in StagesOf("push") :
        LET rec == started[i]
            t   == trees["webroot"]
        IN  /\ "remote set-url" \in OpsOf(rec) => cfg.token
            /\ Succeeded(rec, "commit")
               => /\ ("remote set-url" \in OpsOf(rec)) = cfg.token
                  /\ ("push" \in OpsOf(rec)) = ("remote set-url" \notin rec.failed)
                  /\ \A j, k \in 1..Len(rec.cmds) :
                        (rec.cmds[j].op = "remote set-url" /\ rec.cmds[k].op = "push")
                        => j < k
                  /\ t.remote = IF Succeeded(rec, "remote set-url") THEN "token"
                                ELSE rec.before.remote
                  /\ ~cfg.token => (t.remote = "origin" /\ "push" \in OpsOf(rec))

\* no token: the branch was pushed to the remote as it was cloned
C24_Witness ==
    /\ pc = "done"
    /\ ~cfg.token
    /\ \E i \in StagesOf("push") : Succeeded(started[i], "push")
    /\ trees["webroot"].remote = "origin"
    /\ trees["webroot"].pushed

----------------------------------------------------------------------------
(* Branch names (SpecBranch)                                               *)

\* C25: any two push_changes calls for the same ig_folder create branches
\* with different names.
C25_DistinctBranches ==
    \A i, j \in 1..Len(branches) :
        (i # j /\ branches[i].ig_folder = branches[j].ig_folder)
        => branches[i].cmd.branch # branches[j].cmd.branch

----------------------------------------------------------------------------
(* Move and copy (SpecDeploy)                                              *)

\* C26: after prepare_deployment returned, a file of the webroot larger than
\* the threshold is no longer in the webroot, and every other file of the
\* webroot is still there, unchanged, and is also in deploy at the same
\* relative path.
C26_MoveLargeCopyRest ==
    Returned =>
      \A p \in DOMAIN fsLast.before.webroot :
          LET f == fsLast.before.webroot[p]
          IN  IF f.size > fsLast.max_size
              THEN p \notin DOMAIN fs.webroot
              ELSE /\ p \in DOMAIN fs.webroot
                   /\ fs.webroot[p] = f
                   /\ p \in DOMAIN fs.deploy
                   /\ fs.deploy[p] = f

\* one file was moved out of the webroot and another copied to deploy
C26_Witness ==
    /\ Returned
    /\ \E p, q \in DOMAIN fsLast.before.webroot :
          /\ fsLast.before.webroot[p].size > fsLast.max_size
          /\ p \notin DOMAIN fs.webroot
          /\ fsLast.before.webroot[q].size <= fsLast.max_size
          /\ q \in DOMAIN fs.webroot
          /\ q \in DOMAIN fs.deploy

----------------------------------------------------------------------------
(* Exit status before patterns (SpecCmd)                                   *)

\* C27: run_command of fhir_publisher.py called with detect_errors=True on
\* a command that exits non-zero raises the CalledProcessError with the exit
\* status and the merged output, also when the output matches an error
\* pattern; the pattern error is raised only for a command that exits 0.
C27_ExitStatusFirst ==
    (Called /\ call.ex = "fhir" /\ call.detect_errors)
    => /\ call.proc.rc # 0
          => res.raised = CalledProcessError(call.proc.rc, call.cmd,
                                             Merged(call.proc))
       /\ res.raised.kind = "RuntimeError" => call.proc.rc = 0

\* a command exited non-zero and printed a line that matches a pattern
C27_Witness ==
    /\ Called /\ call.ex = "fhir" /\ call.detect_errors
    /\ call.proc.rc = 1
    /\ SomePatternMatches(call)
    /\ res.raised.kind = "CalledProcessError"

----------------------------------------------------------------------------
(* Partial fetch across attempts (SpecSync)                                *)

\* C28: in a sequence of sync calls on a path that was absent at first, made
\* with partial fetch enabled and a non-empty path list, every call that
\* returns without error leaves a tree whose sparse path set is the
\* requested one.
C28_SparseAfterRetry ==
    (SparseRequested /\ syncHist # <<>> /\ ~syncHist[1].existed)
    => \A i \in 1..Len(syncHist) :
          syncHist[i].raised = NoErr
          => /\ syncHist[i].after.kind = "repo"
             /\ syncHist[i].after.sparse = SparseTree(Range(syncCfg.sparse_dirs))

----------------------------------------------------------------------------
(* Push not requested (Spec)                                               *)

\* C30: with push_changes false the push stage issues no command, leaves
\* the webroot working tree as it found it and returns without error, so
\* the run completes.
C30_SkipPush ==
    \A i \in StagesOf("push") :
        ~cfg.push_changes
        => /\ started[i].cmds = <<>>
           /\ started[i].failed = {}
           /\ started[i].raised = NoErr
           /\ trees["webroot"] = started[i].before
           /\ pc = "done"
           /\ outcome = NoErr

\* a run without --push reached the push stage and completed
C30_Witness ==
    /\ cfg.variant = "release"
    /\ ~cfg.push_changes
    /\ StagesOf("push") # {}
    /\ pc = "done"

----------------------------------------------------------------------------
(* One stoppable build in the desktop launcher (SpecGui)                   *)

\* a launched subprocess that has neither exited nor been sent the
\* termination signal
Running(i) == procs[i] = "running"

C29_AtMostOne == Cardinality({i \in Builds : Running(i)}) <= 1

C29_StopRefers ==
    \A i \in Builds :
        Running(i) => (stop_button = "normal" /\ process = i)

\* C29: under any interleaving of Start Build, Stop and the build threads,
\* at most one subprocess launched from the launcher is running, and while
\* one is running the Stop button is enabled and self.process is that
\* subprocess.
C29_OneStoppableBuild == C29_AtMostOne /\ C29_StopRefers

====
